---- MODULE Spec2Model ----
(***************************************************************************)
(* Model of src/src/arch.cc, the platform layer of VSEARCH: the aligned    *)
(* allocator (xmalloc, xrealloc, xfree), the resource monitor              *)
(* (arch_get_memtotal, arch_get_cores, arch_get_user_system_time) and the  *)
(* random number source (arch_srandom, arch_random).                       *)
(*                                                                         *)
(* The #ifdef branches of the source are selected by the variable          *)
(* platform, fixed in the initial state.  Results of operating system and  *)
(* C/C++ library calls are inputs, drawn with \E from small sets.  A read  *)
(* of an object the code never initialised (the out-parameter of a failed  *)
(* OS query) is a choice over Indeterminate.                               *)
(*                                                                         *)
(* std::mt19937 and std::uniform_int_distribution are library code: the    *)
(* k-th value a generator produces is kept as the term Draw64(init, s, k), *)
(* which stands for "output number k of the engine initialised by init     *)
(* with s"; two terms are equal only if they name the same output of the   *)
(* same stream.                                                            *)
(***************************************************************************)
EXTENDS Integers, Sequences, FiniteSets, TLC

\* ------------------------------------------------------------- bounds
MaxSeed == 1          \* configured seeds are 0..MaxSeed and 42
MaxEntropy == 1       \* values the OS entropy source / clock yields: 0..MaxEntropy
MaxDraws == 3         \* arch_random() calls per process run
MaxSrandomCalls == 2  \* arch_srandom() calls per process run
MaxSlots == 4         \* heap addresses are 8, 16, ..., 8 * MaxSlots
MaxSize == 2          \* requested allocation sizes are 0..MaxSize
MaxGarbage == 1       \* values read from uninitialised storage: 0..MaxGarbage
MaxPhysPages == 2     \* physical pages of the machine: 1..MaxPhysPages
MaxCores == 2         \* logical processors of the machine: 1..MaxCores
MaxSec == 1           \* whole seconds of CPU time the OS reports: 0..MaxSec

\* ------------------------------------------------- program constants
memalignment == 16
NULL == 0
StaticSeed == 42
MicrosPerSecond == 1000000
TicksPerMicro == 10

\* ------------------------------------------------------------- state
VARIABLES
  platform,       \* which #ifdef branch was compiled
  status,         \* "running", or "terminated" once fatal() was called
  fatal_msg,      \* the message passed to fatal(), "" if none
  malloc_align,   \* alignment the general-purpose allocator guarantees
  heap,           \* live blocks: address -> [size, by]
  last_alloc,     \* the last allocator call and what it did
  hw,             \* the machine: [phys_pages, pagesize, cores]
  last_mon,       \* the last resource-monitor call and what it did
  memtotal_returned, \* values arch_get_memtotal() has returned in this run
  opt_randseed,   \* per process run: the configured seed
  rstatus,        \* per process run: "running" or "terminated"
  srandom_log,    \* per process run: what arch_srandom() last did
  c_rand,         \* per process run: seed of the C library's rand()
  generator,      \* per process run: the static generator of arch_random()
  draws           \* per process run: values arch_random() has returned

commonVars == <<platform, status, fatal_msg>>
allocVars == <<malloc_align, heap, last_alloc>>
monVars == <<hw, last_mon, memtotal_returned>>
randVars == <<opt_randseed, rstatus, srandom_log, c_rand, generator, draws>>
vars == <<platform, status, fatal_msg, malloc_align, heap, last_alloc,
          hw, last_mon, memtotal_returned,
          opt_randseed, rstatus, srandom_log, c_rand, generator, draws>>

Platforms == {"win32", "apple", "sysconf", "sysinfo"}
IsWin32 == platform = "win32"

\* fatal(message): prints the message and terminates the process.
Fatal(msg) ==
  /\ status' = "terminated"
  /\ fatal_msg' = msg

NoFatal == UNCHANGED <<status, fatal_msg>>

\* Values an object holds that the code never wrote.
Indeterminate == 0..MaxGarbage

\* ========================================================= allocator
MallocAligns == {8, 16}
Addresses == {8 * i : i \in 1..MaxSlots}
Sizes == 0..MaxSize

\* if (size == 0) size = 1;
NormalizeSize(size) == IF size = 0 THEN 1 ELSE size

FreeAddresses == Addresses \ DOMAIN heap
AlignedTo(a) == {p \in FreeAddresses : p % a = 0}

HeapWithout(p) == [a \in (DOMAIN heap) \ {p} |-> heap[a]]
HeapWith(h, p, sz, fn) == (p :> [size |-> sz, by |-> fn]) @@ h

NoAllocCall ==
  [op |-> "none", ptr_in |-> NULL, size_in |-> 0, asked |-> 0, os_fn |-> "none",
   os_ret |-> NULL, freed_by |-> "none", free_calls |-> 0, block_by |-> "none",
   returned |-> FALSE, ret |-> NULL]

\* t = _aligned_malloc(size, memalignment): NULL or a fresh aligned block.
aligned_malloc_results == {NULL} \cup AlignedTo(memalignment)

\* posix_memalign(&t, memalignment, size): non-zero (t set to nullptr by the
\* caller) or zero with t a fresh aligned block.
posix_memalign_results == {NULL} \cup AlignedTo(memalignment)

\* _aligned_realloc(ptr, size, memalignment): NULL (block untouched), the
\* block resized in place, or a fresh aligned block.
aligned_realloc_results(ptr) ==
  {NULL} \cup (IF ptr = NULL THEN {} ELSE {ptr}) \cup AlignedTo(memalignment)

\* realloc(ptr, size): NULL (block untouched), the block resized in place, or
\* a fresh block aligned as the general-purpose allocator aligns.
realloc_results(ptr) ==
  {NULL} \cup (IF ptr = NULL THEN {} ELSE {ptr}) \cup AlignedTo(malloc_align)

xmalloc_unchecked(size) ==
  /\ status = "running"
  /\ LET sz == NormalizeSize(size)
         fn == IF IsWin32 THEN "_aligned_malloc" ELSE "posix_memalign"
     IN \E t \in (IF IsWin32 THEN aligned_malloc_results
                             ELSE posix_memalign_results) :
          /\ heap' = IF t = NULL THEN heap ELSE HeapWith(heap, t, sz, fn)
          /\ last_alloc' = [NoAllocCall EXCEPT
                 !.op = "xmalloc", !.size_in = size, !.asked = sz, !.os_fn = fn,
                 !.os_ret = t, !.returned = TRUE, !.ret = t]
          /\ NoFatal
  /\ UNCHANGED <<platform, malloc_align>>
  /\ UNCHANGED monVars
  /\ UNCHANGED randVars

xmalloc(size) ==
  /\ status = "running"
  /\ LET sz == NormalizeSize(size)
         fn == IF IsWin32 THEN "_aligned_malloc" ELSE "posix_memalign"
     IN \E t \in (IF IsWin32 THEN aligned_malloc_results
                             ELSE posix_memalign_results) :
          IF t = NULL
          THEN /\ Fatal("Unable to allocate enough memory.")
               /\ heap' = heap
               /\ last_alloc' = [NoAllocCall EXCEPT
                      !.op = "xmalloc", !.size_in = size, !.asked = sz,
                      !.os_fn = fn, !.os_ret = NULL]
          ELSE /\ NoFatal
               /\ heap' = HeapWith(heap, t, sz, fn)
               /\ last_alloc' = [NoAllocCall EXCEPT
                      !.op = "xmalloc", !.size_in = size, !.asked = sz,
                      !.os_fn = fn, !.os_ret = t, !.returned = TRUE, !.ret = t]
  /\ UNCHANGED <<platform, malloc_align>>
  /\ UNCHANGED monVars
  /\ UNCHANGED randVars

xrealloc(ptr, size) ==
  /\ status = "running"
  /\ LET sz == NormalizeSize(size)
         fn == IF IsWin32 THEN "_aligned_realloc" ELSE "realloc"
         by == IF ptr = NULL THEN "none" ELSE heap[ptr].by
     IN \E t \in (IF IsWin32 THEN aligned_realloc_results(ptr)
                             ELSE realloc_results(ptr)) :
          IF t = NULL
          THEN /\ Fatal("Unable to reallocate enough memory.")
               /\ heap' = heap
               /\ last_alloc' = [NoAllocCall EXCEPT
                      !.op = "xrealloc", !.ptr_in = ptr, !.size_in = size,
                      !.asked = sz, !.os_fn = fn, !.os_ret = NULL,
                      !.block_by = by]
          ELSE /\ NoFatal
               /\ heap' = HeapWith(HeapWithout(ptr), t, sz, fn)
               /\ last_alloc' = [NoAllocCall EXCEPT
                      !.op = "xrealloc", !.ptr_in = ptr, !.size_in = size,
                      !.asked = sz, !.os_fn = fn, !.os_ret = t,
                      !.block_by = by, !.returned = TRUE, !.ret = t]
  /\ UNCHANGED <<platform, malloc_align>>
  /\ UNCHANGED monVars
  /\ UNCHANGED randVars

\* xfree as the C library's free() behaves: a null pointer is ignored.
xfree_null_ignored(ptr) ==
  /\ status = "running"
  /\ IF ptr # NULL
     THEN /\ heap' = HeapWithout(ptr)
          /\ last_alloc' = [NoAllocCall EXCEPT
                 !.op = "xfree", !.ptr_in = ptr,
                 !.freed_by = IF IsWin32 THEN "_aligned_free" ELSE "free",
                 !.free_calls = 1, !.block_by = heap[ptr].by, !.returned = TRUE]
     ELSE /\ heap' = heap
          /\ last_alloc' = [NoAllocCall EXCEPT !.op = "xfree", !.returned = TRUE]
  /\ NoFatal
  /\ UNCHANGED <<platform, malloc_align>>
  /\ UNCHANGED monVars
  /\ UNCHANGED randVars

xfree(ptr) ==
  /\ status = "running"
  /\ IF ptr # NULL
     THEN /\ heap' = HeapWithout(ptr)
          /\ last_alloc' = [NoAllocCall EXCEPT
                 !.op = "xfree", !.ptr_in = ptr,
                 !.freed_by = IF IsWin32 THEN "_aligned_free" ELSE "free",
                 !.free_calls = 1, !.block_by = heap[ptr].by, !.returned = TRUE]
          /\ NoFatal
     ELSE /\ Fatal("Trying to free a null pointer")
          /\ heap' = heap
          /\ last_alloc' = [NoAllocCall EXCEPT !.op = "xfree"]
  /\ UNCHANGED <<platform, malloc_align>>
  /\ UNCHANGED monVars
  /\ UNCHANGED randVars

\* Pointers a caller can pass: null, or a block it holds (a pointer already
\* released is excluded: using it is undefined).
CallerPointers == {NULL} \cup DOMAIN heap

Malloc == \E size \in Sizes : xmalloc(size)
Realloc == \E ptr \in CallerPointers, size \in Sizes : xrealloc(ptr, size)
Free == \E ptr \in CallerPointers : xfree(ptr)

\* ================================================== resource monitor
PageSizes == {4096}
Machines ==
  [phys_pages : 1..MaxPhysPages, pagesize : PageSizes, cores : 1..MaxCores]

\* Total physical memory of the machine, in bytes.
TotalBytes == hw.pagesize * hw.phys_pages

NoMonCall ==
  [op |-> "none", os_ok |-> TRUE, returned |-> FALSE, value |-> 0, value2 |-> 0,
   rep_user |-> [sec |-> 0, usec |-> 0], rep_system |-> [sec |-> 0, usec |-> 0]]

MemtotalReturn(ok, v) ==
  /\ last_mon' = [NoMonCall EXCEPT
         !.op = "arch_get_memtotal", !.os_ok = ok, !.returned = TRUE, !.value = v]
  /\ memtotal_returned' = memtotal_returned \cup {v}
  /\ NoFatal

MemtotalFatal ==
  /\ last_mon' = [NoMonCall EXCEPT !.op = "arch_get_memtotal", !.os_ok = FALSE]
  /\ memtotal_returned' = memtotal_returned
  /\ Fatal("Cannot determine amount of RAM")

\* #ifdef _WIN32: the result of GlobalMemoryStatusEx is not looked at; when
\* it fails ms.ullTotalPhys was never written.
memtotal_win32 ==
  /\ platform = "win32"
  /\ \E ok \in BOOLEAN :
       IF ok THEN MemtotalReturn(TRUE, TotalBytes)
       ELSE \E g \in Indeterminate : MemtotalReturn(FALSE, g)

\* #elif defined(__APPLE__): sysctl(CTL_HW, HW_MEMSIZE)
memtotal_apple ==
  /\ platform = "apple"
  /\ \E ok \in BOOLEAN :
       IF ok THEN MemtotalReturn(TRUE, TotalBytes) ELSE MemtotalFatal

\* #elif defined(_SC_PHYS_PAGES) && defined(_SC_PAGESIZE)
memtotal_sysconf ==
  /\ platform = "sysconf"
  /\ \E phys_pages \in {hw.phys_pages, -1}, pagesize \in {hw.pagesize, -1} :
       IF (phys_pages = -1) \/ (pagesize = -1)
       THEN MemtotalFatal
       ELSE MemtotalReturn(TRUE, pagesize * phys_pages)

\* #else: sysinfo(&si), si.totalram blocks of si.mem_unit bytes
memtotal_sysinfo ==
  /\ platform = "sysinfo"
  /\ \E ok \in BOOLEAN :
       IF ok
       THEN LET totalram == hw.phys_pages
                mem_unit == hw.pagesize
            IN MemtotalReturn(TRUE, totalram * mem_unit)
       ELSE MemtotalFatal

arch_get_memtotal ==
  /\ status = "running"
  /\ \/ memtotal_win32
     \/ memtotal_apple
     \/ memtotal_sysconf
     \/ memtotal_sysinfo
  /\ UNCHANGED <<platform, hw>>
  /\ UNCHANGED allocVars
  /\ UNCHANGED randVars

\* sysconf(_SC_NPROCESSORS_ONLN): the count, or -1 on error.
nprocessors_onln_results == {hw.cores, -1}

arch_get_cores ==
  /\ status = "running"
  /\ \E n \in (IF IsWin32 THEN {hw.cores} ELSE nprocessors_onln_results) :
       last_mon' = [NoMonCall EXCEPT
           !.op = "arch_get_cores", !.os_ok = (n # -1), !.returned = TRUE,
           !.value = n]
  /\ NoFatal
  /\ UNCHANGED <<platform, hw, memtotal_returned>>
  /\ UNCHANGED allocVars
  /\ UNCHANGED randVars

\* CPU times the OS can report, and what an unwritten time structure holds.
CpuTimes == [sec : 0..MaxSec, usec : {0, 250000}]
GarbageTimes == [sec : Indeterminate, usec : Indeterminate]

\* struct timeval to seconds: tv_sec * 1.0 + tv_usec * 1.0e-6.  Times are
\* kept in microseconds, so that the value is an integer.
TimevalSeconds(tv) == tv.sec * MicrosPerSecond + tv.usec

\* FILETIME (HighPart/LowPart joined into QuadPart, a count of 100 ns
\* ticks) to seconds: QuadPart * 100.0e-9, here in microseconds.
FiletimeOf(t) == (t.sec * MicrosPerSecond + t.usec) * TicksPerMicro
QuadPartSeconds(quad) == quad \div TicksPerMicro
GarbageFiletimes == {g * TicksPerMicro : g \in Indeterminate}

\* #ifdef _WIN32: the result of GetProcessTimes is not looked at.
user_system_time_win32 ==
  /\ platform = "win32"
  /\ \E ok \in BOOLEAN :
       IF ok
       THEN \E ut \in CpuTimes, st \in CpuTimes :
              last_mon' = [NoMonCall EXCEPT
                  !.op = "arch_get_user_system_time", !.os_ok = TRUE,
                  !.returned = TRUE, !.rep_user = ut, !.rep_system = st,
                  !.value = QuadPartSeconds(FiletimeOf(ut)),
                  !.value2 = QuadPartSeconds(FiletimeOf(st))]
       ELSE \E ftUser \in GarbageFiletimes, ftKernel \in GarbageFiletimes :
              last_mon' = [NoMonCall EXCEPT
                  !.op = "arch_get_user_system_time", !.os_ok = FALSE,
                  !.returned = TRUE,
                  !.value = QuadPartSeconds(ftUser),
                  !.value2 = QuadPartSeconds(ftKernel)]

\* #else: the result of getrusage is not looked at.
user_system_time_rusage ==
  /\ platform # "win32"
  /\ \E ok \in BOOLEAN :
       IF ok
       THEN \E ut \in CpuTimes, st \in CpuTimes :
              last_mon' = [NoMonCall EXCEPT
                  !.op = "arch_get_user_system_time", !.os_ok = TRUE,
                  !.returned = TRUE, !.rep_user = ut, !.rep_system = st,
                  !.value = TimevalSeconds(ut), !.value2 = TimevalSeconds(st)]
       ELSE \E ru_utime \in GarbageTimes, ru_stime \in GarbageTimes :
              last_mon' = [NoMonCall EXCEPT
                  !.op = "arch_get_user_system_time", !.os_ok = FALSE,
                  !.returned = TRUE,
                  !.value = TimevalSeconds(ru_utime),
                  !.value2 = TimevalSeconds(ru_stime)]

arch_get_user_system_time ==
  /\ status = "running"
  /\ \/ user_system_time_win32
     \/ user_system_time_rusage
  /\ NoFatal
  /\ UNCHANGED <<platform, hw, memtotal_returned>>
  /\ UNCHANGED allocVars
  /\ UNCHANGED randVars

\* ==================================================== random numbers
\* Two process runs of the same build, told apart by name.
Runs == {"A", "B"}
Seeds == (0..MaxSeed) \cup {StaticSeed}
Entropy == 0..MaxEntropy

\* Output number k of uniform_int_distribution<uint64_t> over a std::mt19937
\* that was initialised by init ("value": from an integer, "seed_seq": from
\* a seed sequence) with seed.
Draw64(init, seed, k) == [init |-> init, seed |-> seed, index |-> k]

\* The function-local static of arch_random() before and after the first call.
NotConstructed ==
  [constructed |-> FALSE, init |-> "none", seed |-> 0, pos |-> 0]
StaticGenerator ==
  [constructed |-> TRUE, init |-> "value", seed |-> StaticSeed, pos |-> 0]

NoSrandom == [calls |-> 0, seed |-> 0, at |-> 0, local |-> "none"]

\* What arch_srandom() leaves behind: the seed it settled on, the local
\* generator it built (and destroyed on return), and on Windows srand(seed).
SrandomDone(r, seed, local) ==
  /\ srandom_log' = [srandom_log EXCEPT ![r] =
         [calls |-> @.calls + 1, seed |-> seed, at |-> Len(draws[r]),
          local |-> local]]
  /\ c_rand' = IF IsWin32 THEN [c_rand EXCEPT ![r] = seed] ELSE c_rand
  /\ rstatus' = rstatus

\* Constructing std::random_device throws when no entropy source can be
\* opened; nothing catches it there, so the run ends.
SrandomThrows(r) ==
  /\ rstatus' = [rstatus EXCEPT ![r] = "terminated"]
  /\ UNCHANGED <<srandom_log, c_rand>>

\* if (seed == 0), #ifdef _WIN32: seed = time(nullptr); srand(seed);
srandom_zero_win32(r) ==
  /\ opt_randseed[r] = 0
  /\ platform = "win32"
  /\ \E now \in Entropy : SrandomDone(r, now, "none")

\* if (seed == 0), #else: seed = rd(), overwritten from /dev/urandom when the
\* stream is good; std::seed_seq seq{seed}; std::mt19937 generator(seq);
srandom_zero_posix(r) ==
  /\ opt_randseed[r] = 0
  /\ platform # "win32"
  /\ \E rd_ok \in BOOLEAN :
       IF rd_ok
       THEN \E rd \in Entropy, good \in BOOLEAN, bytes \in Entropy :
              SrandomDone(r, IF good THEN bytes ELSE rd, "seed_seq")
       ELSE SrandomThrows(r)

\* else: srand(seed) on Windows, std::mt19937 generator(seed) elsewhere
srandom_nonzero(r) ==
  /\ opt_randseed[r] # 0
  /\ SrandomDone(r, opt_randseed[r], IF IsWin32 THEN "none" ELSE "value")

\* arch_srandom() as it would be if it seeded the generator that
\* arch_random() draws from.
arch_srandom_reseeds(r) ==
  /\ rstatus[r] = "running"
  /\ srandom_log[r].calls < MaxSrandomCalls
  /\ \/ srandom_zero_win32(r)
     \/ srandom_zero_posix(r)
     \/ srandom_nonzero(r)
  /\ generator' = [generator EXCEPT ![r] =
         IF rstatus'[r] = "running"
         THEN [constructed |-> TRUE, init |-> "value",
               seed |-> srandom_log'[r].seed, pos |-> 0]
         ELSE @]
  /\ UNCHANGED <<opt_randseed, draws>>
  /\ UNCHANGED commonVars
  /\ UNCHANGED allocVars
  /\ UNCHANGED monVars

arch_srandom(r) ==
  /\ rstatus[r] = "running"
  /\ srandom_log[r].calls < MaxSrandomCalls
  /\ \/ srandom_zero_win32(r)
     \/ srandom_zero_posix(r)
     \/ srandom_nonzero(r)
  /\ UNCHANGED <<opt_randseed, generator, draws>>
  /\ UNCHANGED commonVars
  /\ UNCHANGED allocVars
  /\ UNCHANGED monVars

\* arch_random() as it would be if its static generator were seeded from
\* the OS entropy source.
arch_random_entropy(r) ==
  /\ rstatus[r] = "running"
  /\ Len(draws[r]) < MaxDraws
  /\ \E e \in Entropy :
       LET g == IF generator[r].constructed THEN generator[r]
                ELSE [StaticGenerator EXCEPT !.seed = e]
       IN /\ generator' = [generator EXCEPT ![r] = [g EXCEPT !.pos = @ + 1]]
          /\ draws' = [draws EXCEPT ![r] =
                 Append(@, Draw64(g.init, g.seed, g.pos + 1))]
  /\ UNCHANGED <<opt_randseed, rstatus, srandom_log, c_rand>>
  /\ UNCHANGED commonVars
  /\ UNCHANGED allocVars
  /\ UNCHANGED monVars

\* static std::mt19937 generator(42) is constructed by the first call and
\* kept; each call advances it by one 64-bit draw.
arch_random(r) ==
  /\ rstatus[r] = "running"
  /\ Len(draws[r]) < MaxDraws
  /\ LET g == IF generator[r].constructed THEN generator[r] ELSE StaticGenerator
     IN /\ generator' = [generator EXCEPT ![r] = [g EXCEPT !.pos = @ + 1]]
        /\ draws' = [draws EXCEPT ![r] =
               Append(@, Draw64(g.init, g.seed, g.pos + 1))]
  /\ UNCHANGED <<opt_randseed, rstatus, srandom_log, c_rand>>
  /\ UNCHANGED commonVars
  /\ UNCHANGED allocVars
  /\ UNCHANGED monVars

Srandom == \E r \in Runs : arch_srandom(r)
Random == \E r \in Runs : arch_random(r)

\* ==================================================== specifications
\* The allocator, the resource monitor and the random number source share
\* no state but the process status, so each is checked in a specification
\* of its own; the state of the other two stays as constructed.
InitCommon ==
  /\ platform \in Platforms
  /\ status = "running"
  /\ fatal_msg = ""

\* The allocator before any call; aligns is what the platform's
\* general-purpose allocator may guarantee.
InitAllocator(aligns) ==
  /\ malloc_align \in aligns
  /\ heap = <<>>
  /\ last_alloc = NoAllocCall

InitMonitor(machines) ==
  /\ hw \in machines
  /\ last_mon = NoMonCall
  /\ memtotal_returned = {}

\* The C library's rand() starts as if srand(1) had been called.
InitRandom(seeds) ==
  /\ opt_randseed \in [Runs -> seeds]
  /\ rstatus = [r \in Runs |-> "running"]
  /\ srandom_log = [r \in Runs |-> NoSrandom]
  /\ c_rand = [r \in Runs |-> 1]
  /\ generator = [r \in Runs |-> NotConstructed]
  /\ draws = [r \in Runs |-> <<>>]

OneMachine == {CHOOSE m \in Machines : TRUE}

\* The allocator of one process.
InitAlloc ==
  InitCommon /\ InitAllocator(MallocAligns) /\ InitMonitor(OneMachine)
  /\ InitRandom({0})
NextAlloc == Malloc \/ Realloc \/ Free
SpecAlloc == InitAlloc /\ [][NextAlloc]_vars

\* The resource monitor of one process.
InitMon ==
  InitCommon /\ InitAllocator({memalignment}) /\ InitMonitor(Machines)
  /\ InitRandom({0})
NextMon == arch_get_memtotal \/ arch_get_cores \/ arch_get_user_system_time
SpecMon == InitMon /\ [][NextMon]_vars

\* The random number source of two process runs.
InitRand ==
  InitCommon /\ InitAllocator({memalignment}) /\ InitMonitor(OneMachine)
  /\ InitRandom(Seeds)
NextRand == Srandom \/ Random
SpecRand == InitRand /\ [][NextRand]_vars

\* ============================================================ claims
Min(a, b) == IF a < b THEN a ELSE b

\* Run r called arch_srandom() exactly once, before its first draw.
SeededOnceFirst(r) ==
  /\ srandom_log[r].calls = 1
  /\ srandom_log[r].at = 0

\* C1: after arch_srandom() ran (before the first draw) with a non-zero
\* configured seed s, the k-th value arch_random() returns is the k-th output
\* of the generator seeded with s, and two runs whose non-zero seeds differ
\* return different draw sequences.
C1_DrawsFollowConfiguredSeed ==
  /\ \A r \in Runs :
       (opt_randseed[r] # 0 /\ srandom_log[r].calls >= 1 /\ srandom_log[r].at = 0)
       => \A k \in 1..Len(draws[r]) :
            draws[r][k] = Draw64("value", opt_randseed[r], k)
  /\ \A r1, r2 \in Runs :
       (/\ opt_randseed[r1] # 0
        /\ opt_randseed[r2] # 0
        /\ opt_randseed[r1] # opt_randseed[r2]
        /\ SeededOnceFirst(r1)
        /\ SeededOnceFirst(r2)
        /\ Len(draws[r1]) > 0
        /\ Len(draws[r1]) = Len(draws[r2]))
       => draws[r1] # draws[r2]

\* C2: two process runs configured with the same non-zero seed, each calling
\* arch_srandom() once and then arch_random() repeatedly, return the same
\* values in the same order.
C2_SameSeedSameDraws ==
  \A r1, r2 \in Runs :
    (/\ opt_randseed[r1] # 0
     /\ opt_randseed[r1] = opt_randseed[r2]
     /\ SeededOnceFirst(r1)
     /\ SeededOnceFirst(r2))
    => \A k \in 1..Min(Len(draws[r1]), Len(draws[r2])) :
         draws[r1][k] = draws[r2][k]

\* Both runs were configured with the same non-zero seed, seeded once and
\* drew MaxDraws values each.
C2_Witness ==
  /\ opt_randseed["A"] \notin {0, StaticSeed}
  /\ opt_randseed["A"] = opt_randseed["B"]
  /\ \A r \in Runs : SeededOnceFirst(r) /\ Len(draws[r]) = MaxDraws

\* C3: two process runs configured with seed 0 whose arch_srandom() derived
\* different seeds from the OS entropy source return different sequences
\* from arch_random().
C3_ZeroSeedRunsDiffer ==
  \A r1, r2 \in Runs :
    (/\ opt_randseed[r1] = 0
     /\ opt_randseed[r2] = 0
     /\ SeededOnceFirst(r1)
     /\ SeededOnceFirst(r2)
     /\ srandom_log[r1].seed # srandom_log[r2].seed
     /\ Len(draws[r1]) > 0
     /\ Len(draws[r1]) = Len(draws[r2]))
    => draws[r1] # draws[r2]

\* C4: every pointer xmalloc() or xrealloc() returns is a multiple of
\* memalignment, on every platform and whatever the general-purpose
\* allocator's own alignment is.
C4_ReturnedPointersAligned ==
  (last_alloc.op \in {"xmalloc", "xrealloc"} /\ last_alloc.returned)
  => last_alloc.ret % memalignment = 0

\* C5: xmalloc() and xrealloc() never ask the underlying allocator for zero
\* bytes (size 0 becomes 1) and never return a null pointer: either the
\* underlying call succeeded and its pointer is returned, or it failed,
\* fatal() was called and nothing is returned.
C5_NeverReturnsNull ==
  last_alloc.op \in {"xmalloc", "xrealloc"}
  => /\ last_alloc.asked >= 1
     /\ last_alloc.size_in = 0 => last_alloc.asked = 1
     /\ last_alloc.returned => last_alloc.ret # NULL
     /\ IF last_alloc.os_ret # NULL
        THEN /\ last_alloc.returned
             /\ last_alloc.ret = last_alloc.os_ret
             /\ status = "running"
        ELSE /\ ~last_alloc.returned
             /\ status = "terminated"
             /\ fatal_msg \in {"Unable to allocate enough memory.",
                               "Unable to reallocate enough memory."}

\* xrealloc() was called with size 0 and the underlying allocator failed.
C5_Witness ==
  /\ last_alloc.op = "xrealloc"
  /\ last_alloc.size_in = 0
  /\ last_alloc.os_ret = NULL
  /\ status = "terminated"

\* The deallocator is the one that pairs with the call that produced the block.
MatchingPath(freed_by, block_by) ==
  \/ freed_by = "_aligned_free" /\ block_by \in {"_aligned_malloc", "_aligned_realloc"}
  \/ freed_by = "free" /\ block_by \in {"posix_memalign", "realloc"}

\* C6: xfree(null) calls fatal(), does not return and calls no deallocator;
\* xfree(p) for a live block p calls the deallocator matching the block's
\* allocation path exactly once and does not call fatal().
C6_FreeNullIsFatal ==
  last_alloc.op = "xfree"
  => IF last_alloc.ptr_in = NULL
     THEN /\ status = "terminated"
          /\ fatal_msg = "Trying to free a null pointer"
          /\ ~last_alloc.returned
          /\ last_alloc.free_calls = 0
     ELSE /\ status = "running"
          /\ last_alloc.returned
          /\ last_alloc.free_calls = 1
          /\ MatchingPath(last_alloc.freed_by, last_alloc.block_by)
          /\ last_alloc.ptr_in \notin DOMAIN heap

\* xfree(null) was called while the process held live blocks.
C6_Witness ==
  /\ last_alloc.op = "xfree"
  /\ last_alloc.ptr_in = NULL
  /\ status = "terminated"
  /\ DOMAIN heap # {}

\* C7: once constructed, the generator of arch_random() keeps its seed and
\* serves every draw: the k-th value returned is output k of the generator
\* as first seeded, also when arch_srandom() is called between draws.
C7_NeverReseeded ==
  \A r \in Runs :
    IF generator[r].constructed
    THEN /\ generator[r].pos = Len(draws[r])
         /\ \A k \in 1..Len(draws[r]) :
              draws[r][k] = Draw64(generator[r].init, generator[r].seed, k)
    ELSE draws[r] = <<>>

\* arch_srandom() was called after a draw, and a draw followed it.
C7_Witness ==
  \E r \in Runs :
    /\ srandom_log[r].calls >= 1
    /\ srandom_log[r].at >= 1
    /\ Len(draws[r]) > srandom_log[r].at

\* C8: when the OS query of arch_get_memtotal() fails, fatal() is called and
\* nothing is returned; when it succeeds, the value returned is the total
\* physical memory, is > 0, and is the same on every call of the run.
C8_MemtotalNoSentinel ==
  /\ last_mon.op = "arch_get_memtotal"
     => IF last_mon.os_ok
        THEN /\ last_mon.returned
             /\ last_mon.value = TotalBytes
             /\ last_mon.value > 0
        ELSE /\ ~last_mon.returned
             /\ status = "terminated"
  /\ Cardinality(memtotal_returned) <= 1

\* C9: arch_get_user_system_time() never calls fatal(); when the OS query
\* fails both times are 0, and when it succeeds they are the reported
\* seconds + microseconds * 1e-6.
C9_TimesDefaultToZero ==
  last_mon.op = "arch_get_user_system_time"
  => /\ status = "running"
     /\ last_mon.returned
     /\ IF last_mon.os_ok
        THEN /\ last_mon.value = TimevalSeconds(last_mon.rep_user)
             /\ last_mon.value2 = TimevalSeconds(last_mon.rep_system)
        ELSE /\ last_mon.value = 0
             /\ last_mon.value2 = 0

\* C10: whenever arch_get_cores() returns, the value is >= 1.
C10_CoresAtLeastOne ==
  (last_mon.op = "arch_get_cores" /\ last_mon.returned) => last_mon.value >= 1

====
